---- MODULE Spec2Model ----
(***************************************************************************)
(* The `ls` and `drop` subcommands of the tbl command line tool, with the  *)
(* file-set resolution and metadata-aggregation engine they call.          *)
(*                                                                         *)
(* A path is a record [abs, dir, stem]: `dir` is the sequence of directory *)
(* components, `stem` the file stem as a sequence of tokens (so a prefix   *)
(* or postfix is a real concatenation), `abs` tells an absolute path from  *)
(* one that is resolved against the working directory.  Every file has the *)
(* same extension, which no operation changes.                             *)
(***************************************************************************)
EXTENDS Integers, Sequences, FiniteSets, TLC

(***************************************************************************)
(* Bounds.                                                                 *)
(***************************************************************************)
\* longest explicit --inputs list
MaxInputs == 2
\* largest explicit --n of ls
MaxN == 3
\* tallest terminal reported by term_size::dimensions()
MaxHeight == 7

(***************************************************************************)
(* Program constants.                                                      *)
(***************************************************************************)
NShowFiles == 10
DefaultPrint == 100
MinHeight == 5
HeaderLines == 4

(***************************************************************************)
(* The filesystem fixture: two tabular files below directory w, one file   *)
(* below the output directory o.                                           *)
(***************************************************************************)
FileA == [abs |-> TRUE, dir |-> <<"w">>, stem |-> <<"a">>]
FileSA == [abs |-> TRUE, dir |-> <<"w", "s">>, stem |-> <<"a">>]
FileOA == [abs |-> TRUE, dir |-> <<"o">>, stem |-> <<"a">>]
NoPath == [abs |-> FALSE, dir |-> <<>>, stem |-> <<>>]

\* the files a command can be pointed at, and every file that may exist
InputFiles == {FileA, FileSA}
Universe == {FileA, FileSA, FileOA}
\* lexical order of the universe (o/a < w/a < w/s/a)
LexOrder == <<FileOA, FileA, FileSA>>

WorkDirs == {<<"w">>, <<"w", "s">>}
OutDir == <<"o">>

\* what the footer and the inode of each file hold
SchemaOf(f) == IF f = FileA THEN <<"x", "y">> ELSE IF f = FileSA THEN <<"x">> ELSE <<"q">>
RowsOf(f) == IF f = FileA THEN 3 ELSE IF f = FileSA THEN 5 ELSE 7
SizeOf(f) == IF f = FileA THEN 1 ELSE IF f = FileSA THEN 2 ELSE 4

\* the column lists a drop is asked for
ColumnChoices == {<<>>, <<"x">>, <<"y">>, <<"y", "z">>, <<"z", "y">>}

None == [some |-> FALSE, val |-> <<>>]
Some(v) == [some |-> TRUE, val |-> v]

RECURSIVE SeqsUpTo(_, _)
SeqsUpTo(S, n) ==
    IF n = 0 THEN {<<>>}
    ELSE LET shorter == SeqsUpTo(S, n - 1)
         IN shorter \cup {Append(s, x) : s \in {t \in shorter : Len(t) = n - 1}, x \in S}

\* --inputs: absent, or a non-empty list of file paths
InputChoices == {None} \cup {Some(s) : s \in SeqsUpTo(InputFiles, MaxInputs) \ {<<>>}}

VARIABLES
    cmd,        \* "ls" or "drop": the subcommand run_cli dispatched to
    args,       \* the parsed LsArgs / DropArgs
    cwd,        \* the working directory
    fs,         \* the files that exist
    corrupt,    \* the existing files whose footer cannot be read
    pc,         \* the command's position
    stages,     \* the stages the command has run, in order
    paths,      \* ls: paths; drop: inputs
    outputs,    \* drop: outputs
    pending,    \* indexes of the footer reads still in flight
    reads,      \* index -> result of a completed footer read
    outOfOrder, \* a read completed while a read of a lower index was in flight
    metas,      \* drop: schemas; ls: row_counts
    total_size, \* ls: total_size
    n_print,    \* ls: n_print
    answer,     \* drop: what the confirmation prompt returned
    out,        \* the lines printed so far
    result      \* the command's return value

vars == <<cmd, args, cwd, fs, corrupt, pc, stages, paths, outputs, pending, reads,
          outOfOrder, metas, total_size, n_print, answer, out, result>>

(***************************************************************************)
(* Results.                                                                *)
(***************************************************************************)
Running ==
    [status |-> "none", kind |-> "", msg |-> "", column |-> "", path |-> NoPath, other |-> NoPath]
Ok ==
    [status |-> "ok", kind |-> "", msg |-> "", column |-> "", path |-> NoPath, other |-> NoPath]
Err(kind, msg, column, path, other) ==
    [status |-> "err", kind |-> kind, msg |-> msg, column |-> column, path |-> path,
     other |-> other]

Line(t, v) == [t |-> t, v |-> v]

Min(a, b) == IF a <= b THEN a ELSE b

Indexes(s) == 1..Len(s)

(***************************************************************************)
(* Path arithmetic.                                                        *)
(***************************************************************************)
IsPrefix(p, s) == Len(p) <= Len(s) /\ SubSeq(s, 1, Len(p)) = p

RECURSIVE CommonOfTwo(_, _)
CommonOfTwo(a, b) ==
    IF a = <<>> \/ b = <<>> \/ Head(a) # Head(b) THEN <<>>
    ELSE <<Head(a)>> \o CommonOfTwo(Tail(a), Tail(b))

\* Path::strip_prefix: the path relative to `prefix`, or an error
StripPrefix(p, prefix) ==
    IF p.abs /\ IsPrefix(prefix, p.dir)
    THEN [ok |-> TRUE,
          path |-> [abs |-> FALSE,
                    dir |-> SubSeq(p.dir, Len(prefix) + 1, Len(p.dir)),
                    stem |-> p.stem]]
    ELSE [ok |-> FALSE, path |-> p]

\* the file the operating system opens for a path
Resolve(p) == IF p.abs THEN p ELSE [abs |-> TRUE, dir |-> cwd \o p.dir, stem |-> p.stem]

(***************************************************************************)
(* Path Enumerator (tbl::filesystem::get_input_paths).                     *)
(***************************************************************************)
RECURSIVE Dedup(_)
Dedup(s) ==
    IF s = <<>> THEN <<>>
    ELSE LET front == Dedup(SubSeq(s, 1, Len(s) - 1))
             last == s[Len(s)]
         IN IF \E i \in Indexes(front) : front[i] = last THEN front ELSE Append(front, last)

\* the matching files of the working directory, or of its whole tree
ListDir(dir, tree) ==
    LET Matches(f) == f \in fs /\ (IF tree THEN IsPrefix(dir, f.dir) ELSE f.dir = dir)
    IN SelectSeq(LexOrder, Matches)

GetInputPaths(inputs, tree) ==
    LET listed == IF inputs.some THEN Dedup(inputs.val) ELSE ListDir(cwd, tree)
        missing == {i \in Indexes(listed) : listed[i] \notin fs}
        first == CHOOSE i \in missing : \A j \in missing : i <= j
    IN IF missing # {}
       THEN [err |-> Err("NotFound", "no such file", "", listed[first], NoPath), paths |-> <<>>]
       ELSE IF listed = <<>>
       THEN [err |-> Err("EmptySet", "no files", "", NoPath, NoPath), paths |-> <<>>]
       ELSE [err |-> Ok, paths |-> listed]

(***************************************************************************)
(* Output Path Deriver (tbl::filesystem::get_output_paths,                 *)
(* get_common_prefix).                                                     *)
(***************************************************************************)
RECURSIVE CommonDir(_)
CommonDir(files) ==
    IF Len(files) = 1 THEN files[1].dir
    ELSE CommonOfTwo(files[1].dir, CommonDir(Tail(files)))

\* the common ancestor directory of all paths
GetCommonPrefix(files) ==
    IF files = <<>>
    THEN [err |-> Err("EmptySet", "no paths", "", NoPath, NoPath), prefix |-> <<>>]
    ELSE [err |-> Ok, prefix |-> CommonDir(files)]

Affix(opt) == IF opt.some THEN opt.val ELSE <<>>

DerivePath(f, common, spec) ==
    [abs |-> TRUE,
     dir |-> IF spec.output_dir.some
             THEN spec.output_dir.val \o SubSeq(f.dir, Len(common) + 1, Len(f.dir))
             ELSE f.dir,
     stem |-> Affix(spec.file_prefix) \o f.stem \o Affix(spec.file_postfix)]

Derive(files, spec) ==
    LET common == GetCommonPrefix(files).prefix
    IN [i \in Indexes(files) |-> DerivePath(files[i], common, spec)]

\* the pairs of distinct inputs that share an output path
Collisions(outs) == {pr \in Indexes(outs) \X Indexes(outs) : pr[1] < pr[2] /\ outs[pr[1]] = outs[pr[2]]}

\* GetOutputPaths joining the output directory with the bare file name and
\* returning the mapping unchecked
GetOutputPathsFlat(spec) ==
    LET found == GetInputPaths(spec.inputs, spec.tree)
        Flat(f) == [abs |-> TRUE,
                    dir |-> IF spec.output_dir.some THEN spec.output_dir.val ELSE f.dir,
                    stem |-> Affix(spec.file_prefix) \o f.stem \o Affix(spec.file_postfix)]
    IN IF found.err.status = "err"
       THEN [err |-> found.err, inputs |-> <<>>, outputs |-> <<>>]
       ELSE [err |-> Ok, inputs |-> found.paths,
             outputs |-> [i \in Indexes(found.paths) |-> Flat(found.paths[i])]]

GetOutputPaths(spec) ==
    LET found == GetInputPaths(spec.inputs, spec.tree)
        outs == Derive(found.paths, spec)
        clash == CHOOSE pr \in Collisions(outs) : TRUE
    IN IF found.err.status = "err"
       THEN [err |-> found.err, inputs |-> <<>>, outputs |-> <<>>]
       ELSE IF Collisions(outs) # {}
       THEN [err |-> Err("PathCollision", "two inputs share an output path", "",
                         found.paths[clash[1]], found.paths[clash[2]]),
             inputs |-> <<>>, outputs |-> <<>>]
       ELSE [err |-> Ok, inputs |-> found.paths, outputs |-> outs]

(***************************************************************************)
(* Metadata Aggregator (tbl::parquet::get_parquet_schemas,                 *)
(* get_parquet_row_counts) and Existence Prechecker                        *)
(* (tbl::filesystem::count_existing_files).                                *)
(***************************************************************************)
\* one file's footer, or a read error
ReadFooter(p) ==
    LET f == Resolve(p)
    IN IF f \in fs \ corrupt
       THEN [ok |-> TRUE, schema |-> SchemaOf(f), rows |-> RowsOf(f)]
       ELSE [ok |-> FALSE, schema |-> <<>>, rows |-> 0]

\* what the aggregator returns once every read is back, by input index
Collected(files, done) ==
    LET bad == {i \in Indexes(files) : ~done[i].ok}
        first == CHOOSE i \in bad : \A j \in bad : i <= j
    IN IF bad # {}
       THEN [err |-> Err("UnreadableMetadata", "cannot read footer", "", files[first], NoPath),
             values |-> <<>>]
       ELSE [err |-> Ok, values |-> [i \in Indexes(files) |-> done[i]]]

CountExistingFiles(outs) == Cardinality({i \in Indexes(outs) : Resolve(outs[i]) \in fs})

\* std::fs::metadata(path).len()
FileSize(p) ==
    LET f == Resolve(p)
    IN IF f \in fs THEN [ok |-> TRUE, len |-> SizeOf(f)] ELSE [ok |-> FALSE, len |-> 0]

(***************************************************************************)
(* Initial states: one invocation of `tbl ls` or `tbl drop`.               *)
(***************************************************************************)
Idle ==
    /\ pc = "start"
    /\ stages = <<>>
    /\ paths = <<>>
    /\ outputs = <<>>
    /\ pending = {}
    /\ reads = <<>>
    /\ outOfOrder = FALSE
    /\ metas = <<>>
    /\ total_size = 0
    /\ n_print = 0
    /\ answer = "none"
    /\ out = <<>>
    /\ result = Running

DropArgs ==
    {a \in [columns : ColumnChoices, inputs : InputChoices, tree : BOOLEAN,
            confirm : BOOLEAN, output_prefix : {None, Some(<<"p">>)},
            output_postfix : {None, Some(<<"q">>)}, output_dir : {None, Some(OutDir)},
            absolute : {FALSE}, n : {None}] :
        a.inputs.some => ~a.tree}

LsArgs ==
    {a \in [columns : {<<>>}, inputs : InputChoices, tree : BOOLEAN, confirm : {FALSE},
            output_prefix : {None}, output_postfix : {None}, output_dir : {None},
            absolute : BOOLEAN, n : {None} \cup {Some(k) : k \in 0..MaxN}] :
        a.inputs.some => ~a.tree}

DropInit ==
    /\ cmd = "drop"
    /\ args \in DropArgs
    /\ cwd \in WorkDirs
    /\ fs \in SUBSET Universe
    /\ corrupt \in SUBSET (fs \cap InputFiles)
    /\ Idle

LsInit ==
    /\ cmd = "ls"
    /\ args \in LsArgs
    /\ cwd \in WorkDirs
    /\ fs \in SUBSET InputFiles
    /\ corrupt \in SUBSET fs
    /\ Idle

Init == DropInit \/ LsInit

(***************************************************************************)
(* The concurrent footer reads of the aggregator.                          *)
(***************************************************************************)
FooterRead(i) ==
    /\ pc \in {"schemas_wait", "rows_wait"}
    /\ i \in pending
    /\ reads' = (i :> ReadFooter(paths[i])) @@ reads
    /\ pending' = pending \ {i}
    /\ outOfOrder' = (outOfOrder \/ \E j \in pending : j < i)
    /\ UNCHANGED <<cmd, args, cwd, fs, corrupt, pc, stages, paths, outputs, metas,
                   total_size, n_print, answer, out, result>>

(***************************************************************************)
(* drop_command.                                                           *)
(***************************************************************************)
Fail(e) == result' = e /\ pc' = "done"

Contains(schema, column) == \E k \in Indexes(schema) : schema[k] = column

\* FirstMissing with the loops running to their end: the last pair wins
LastMissing(inputs, schemas, columns) ==
    LET n == Min(Len(inputs), Len(schemas))
        Lacks(i) == {k \in Indexes(columns) : ~Contains(schemas[i], columns[k])}
        bad == {i \in 1..n : Lacks(i) # {}}
        i == CHOOSE b \in bad : \A c \in bad : b >= c
        k == CHOOSE l \in Lacks(i) : \A m \in Lacks(i) : l >= m
    IN IF bad = {}
       THEN [found |-> FALSE, column |-> "", input |-> NoPath]
       ELSE [found |-> TRUE, column |-> columns[k], input |-> inputs[i]]

\* FirstMissing with the zip one pair short
ShortZipMissing(inputs, schemas, columns) ==
    LET n == Min(Len(inputs), Len(schemas)) - 1
        Lacks(i) == {k \in Indexes(columns) : ~Contains(schemas[i], columns[k])}
        bad == {i \in 1..n : Lacks(i) # {}}
        i == CHOOSE b \in bad : \A c \in bad : b <= c
        k == CHOOSE l \in Lacks(i) : \A m \in Lacks(i) : l <= m
    IN IF bad = {}
       THEN [found |-> FALSE, column |-> "", input |-> NoPath]
       ELSE [found |-> TRUE, column |-> columns[k], input |-> inputs[i]]

\* the first (file, column) pair of the zip of inputs with schemas whose
\* schema lacks the column
FirstMissing(inputs, schemas, columns) ==
    LET n == Min(Len(inputs), Len(schemas))
        Lacks(i) == {k \in Indexes(columns) : ~Contains(schemas[i], columns[k])}
        bad == {i \in 1..n : Lacks(i) # {}}
        i == CHOOSE b \in bad : \A c \in bad : b <= c
        k == CHOOSE l \in Lacks(i) : \A m \in Lacks(i) : l <= m
    IN IF bad = {}
       THEN [found |-> FALSE, column |-> "", input |-> NoPath]
       ELSE [found |-> TRUE, column |-> columns[k], input |-> inputs[i]]

DropDerive ==
    /\ cmd = "drop" /\ pc = "start"
    /\ stages' = Append(stages, "derive")
    /\ LET output_spec == [inputs |-> args.inputs, output_dir |-> args.output_dir,
                           tree |-> args.tree, file_prefix |-> args.output_prefix,
                           file_postfix |-> args.output_postfix]
           got == GetOutputPaths(output_spec)
       IN IF got.err.status = "err"
          THEN Fail(got.err) /\ UNCHANGED <<paths, outputs>>
          ELSE /\ paths' = got.inputs
               /\ outputs' = got.outputs
               /\ pc' = "schemas"
               /\ UNCHANGED result
    /\ UNCHANGED <<cmd, args, cwd, fs, corrupt, pending, reads, outOfOrder, metas,
                   total_size, n_print, answer, out>>

DropGetSchemas ==
    /\ cmd = "drop" /\ pc = "schemas"
    /\ stages' = Append(stages, "schemas")
    /\ pending' = Indexes(paths)
    /\ reads' = <<>>
    /\ pc' = "schemas_wait"
    /\ UNCHANGED <<cmd, args, cwd, fs, corrupt, paths, outputs, outOfOrder, metas,
                   total_size, n_print, answer, out, result>>

DropSchemasJoin ==
    /\ cmd = "drop" /\ pc = "schemas_wait" /\ pending = {}
    /\ LET got == Collected(paths, reads)
       IN IF got.err.status = "err"
          THEN Fail(got.err) /\ UNCHANGED metas
          ELSE /\ metas' = [i \in Indexes(got.values) |-> got.values[i].schema]
               /\ pc' = "check"
               /\ UNCHANGED result
    /\ UNCHANGED <<cmd, args, cwd, fs, corrupt, stages, paths, outputs, pending, reads,
                   outOfOrder, total_size, n_print, answer, out>>

DropCheckColumns ==
    /\ cmd = "drop" /\ pc = "check"
    /\ stages' = Append(stages, "check")
    /\ LET m == FirstMissing(paths, metas, args.columns)
       IN IF m.found
          THEN Fail(Err("MissingColumn", "File does not contain column", m.column,
                        m.input, NoPath))
          ELSE pc' = "summary" /\ UNCHANGED result
    /\ UNCHANGED <<cmd, args, cwd, fs, corrupt, paths, outputs, pending, reads,
                   outOfOrder, metas, total_size, n_print, answer, out>>

\* the "- path" lines of the summary: the first n_show_files inputs, relative
\* to the working directory when no --inputs were given; stops at the first
\* path that strip_prefix rejects
FileLines(inputs, relative) ==
    LET shown == SubSeq(inputs, 1, Min(NShowFiles, Len(inputs)))
        Shown(i) == IF relative THEN StripPrefix(shown[i], cwd) ELSE [ok |-> TRUE, path |-> shown[i]]
        bad == {i \in Indexes(shown) : ~Shown(i).ok}
        stop == IF bad = {} THEN Len(shown) + 1 ELSE CHOOSE i \in bad : \A j \in bad : i <= j
    IN [ok |-> bad = {},
        failed |-> IF bad = {} THEN NoPath ELSE shown[stop],
        lines |-> [i \in 1..(stop - 1) |-> Line("file", Shown(i).path)]]

\* DropSummary without the check for an empty column list
DropSummaryAnyColumns ==
    /\ cmd = "drop" /\ pc = "summary"
    /\ stages' = Append(stages, "summary")
    /\ LET listing == FileLines(paths, ~args.inputs.some)
           n_existing == CountExistingFiles(outputs)
       IN IF ~listing.ok
          THEN /\ out' = out \o <<Line("files", 0)>> \o listing.lines
               /\ Fail(Err("StripPrefix", "prefix not found", "", listing.failed, NoPath))
          ELSE /\ out' = out \o <<Line("files", 0)>> \o listing.lines
                             \o <<Line("blank", 0), Line("dropping", 0)>>
                             \o (IF args.output_dir.some /\ n_existing > 0
                                 THEN <<Line("overwrite", n_existing)>> ELSE <<>>)
               /\ pc' = "confirm"
               /\ UNCHANGED result
    /\ UNCHANGED <<cmd, args, cwd, fs, corrupt, paths, outputs, pending, reads,
                   outOfOrder, metas, total_size, n_print, answer>>

\* print_drop_summary; std::env::current_dir() returns the directory the
\* enumerator listed
DropSummary ==
    /\ cmd = "drop" /\ pc = "summary"
    /\ stages' = Append(stages, "summary")
    /\ LET listing == FileLines(paths, ~args.inputs.some)
           files == <<Line("files", 0)>> \o listing.lines
                        \o (IF Len(paths) > NShowFiles THEN <<Line("more", 0)>> ELSE <<>>)
           dropping == Line("dropping",
                            [column_str |-> IF Len(args.columns) = 1 THEN "column" ELSE "columns",
                             columns |-> args.columns,
                             n_files |-> Len(paths),
                             file_str |-> IF Len(paths) = 1 THEN "file" ELSE "files",
                             inplace |-> ~args.output_dir.some])
           n_existing == CountExistingFiles(outputs)
           warning == IF args.output_dir.some /\ n_existing > 0
                      THEN <<Line("overwrite", n_existing)>>
                      ELSE <<>>
       IN IF ~listing.ok
          THEN /\ out' = out \o <<Line("files", 0)>> \o listing.lines
               /\ Fail(Err("StripPrefix", "prefix not found", "", listing.failed, NoPath))
          ELSE IF args.columns = <<>>
          THEN /\ out' = out \o files
               /\ Fail(Err("Arg", "must specify column(s) to drop", "", NoPath, NoPath))
          ELSE /\ out' = out \o files \o <<Line("blank", 0), dropping>> \o warning
               /\ pc' = "confirm"
               /\ UNCHANGED result
    /\ UNCHANGED <<cmd, args, cwd, fs, corrupt, paths, outputs, pending, reads,
                   outOfOrder, metas, total_size, n_print, answer>>

\* inquire::Confirm::prompt(): Ok(true), Ok(false) or an error
PromptAnswers == {"yes", "no", "fail"}

\* Proceeds stopping only on an explicit no
ProceedsUnlessNo(a) == a # "no"

Proceeds(a) == a = "yes"

DropConfirm ==
    /\ cmd = "drop" /\ pc = "confirm"
    /\ stages' = Append(stages, "confirm")
    /\ IF args.confirm
       THEN pc' = "edit" /\ UNCHANGED <<answer, out, result>>
       ELSE \E a \in PromptAnswers :
               /\ answer' = a
               /\ out' = Append(out, Line("prompt", 0))
               /\ IF Proceeds(a)
                  THEN pc' = "edit" /\ UNCHANGED result
                  ELSE Fail(Ok)
    /\ UNCHANGED <<cmd, args, cwd, fs, corrupt, paths, outputs, pending, reads,
                   outOfOrder, metas, total_size, n_print>>

DropEdit ==
    /\ cmd = "drop" /\ pc = "edit"
    /\ stages' = Append(stages, "edit")
    /\ out' = Append(out, Line("not implemented yet", 0))
    /\ Fail(Ok)
    /\ UNCHANGED <<cmd, args, cwd, fs, corrupt, paths, outputs, pending, reads,
                   outOfOrder, metas, total_size, n_print, answer>>

(***************************************************************************)
(* ls_command.                                                             *)
(***************************************************************************)
LsGetPaths ==
    /\ cmd = "ls" /\ pc = "start"
    /\ stages' = Append(stages, "paths")
    /\ LET got == GetInputPaths(args.inputs, args.tree)
       IN IF got.err.status = "err"
          THEN Fail(got.err) /\ UNCHANGED paths
          ELSE paths' = got.paths /\ pc' = "prefix" /\ UNCHANGED result
    /\ UNCHANGED <<cmd, args, cwd, fs, corrupt, outputs, pending, reads, outOfOrder,
                   metas, total_size, n_print, answer, out>>

\* the paths ls goes on with: as enumerated under --absolute, else with the
\* common prefix stripped
ClearPrefix(files, absolute) ==
    LET common == GetCommonPrefix(files)
        Stripped(i) == StripPrefix(files[i], common.prefix)
        bad == {i \in Indexes(files) : ~Stripped(i).ok}
        first == CHOOSE i \in bad : \A j \in bad : i <= j
    IN IF absolute THEN [err |-> Ok, paths |-> files]
       ELSE IF common.err.status = "err" THEN [err |-> common.err, paths |-> <<>>]
       ELSE IF bad # {}
       THEN [err |-> Err("StripPrefix", "prefix not found", "", files[first], NoPath),
             paths |-> <<>>]
       ELSE [err |-> Ok, paths |-> [i \in Indexes(files) |-> Stripped(i).path]]

LsClearPrefix ==
    /\ cmd = "ls" /\ pc = "prefix"
    /\ stages' = Append(stages, "prefix")
    /\ LET got == ClearPrefix(paths, args.absolute)
       IN IF got.err.status = "err"
          THEN Fail(got.err) /\ UNCHANGED paths
          ELSE paths' = got.paths /\ pc' = "size" /\ UNCHANGED result
    /\ UNCHANGED <<cmd, args, cwd, fs, corrupt, outputs, pending, reads, outOfOrder,
                   metas, total_size, n_print, answer, out>>

RECURSIVE SumSeq(_)
SumSeq(s) == IF s = <<>> THEN 0 ELSE Head(s) + SumSeq(Tail(s))

\* the loop over std::fs::metadata: the sum of the sizes, or the first error
TotalSize(files) ==
    LET bad == {i \in Indexes(files) : ~FileSize(files[i]).ok}
        first == CHOOSE i \in bad : \A j \in bad : i <= j
    IN IF bad # {}
       THEN [err |-> Err("Io", "no such file", "", files[first], NoPath), total |-> 0]
       ELSE [err |-> Ok, total |-> SumSeq([i \in Indexes(files) |-> FileSize(files[i]).len])]

LsTotalSize ==
    /\ cmd = "ls" /\ pc = "size"
    /\ stages' = Append(stages, "size")
    /\ LET got == TotalSize(paths)
       IN IF got.err.status = "err"
          THEN Fail(got.err) /\ UNCHANGED total_size
          ELSE total_size' = got.total /\ pc' = "names" /\ UNCHANGED result
    /\ UNCHANGED <<cmd, args, cwd, fs, corrupt, paths, outputs, pending, reads,
                   outOfOrder, metas, n_print, answer, out>>

\* term_size::dimensions(): no terminal, or its height
Heights == {None} \cup {Some(h) : h \in 0..MaxHeight}

NPrint(n, height) ==
    IF n.some THEN n.val
    ELSE IF height.some
    THEN (IF height.val >= MinHeight THEN height.val - HeaderLines ELSE 1)
    ELSE DefaultPrint

\* a - b on usize; -1 stands for the overflow of a < b
UsizeSub(a, b) == IF a >= b THEN a - b ELSE -1

\* NameLines with n <= len for n < len
NameLinesInclusive(files, n) ==
    [i \in 1..Min(n, Len(files)) |-> Line("name", files[i])]
        \o (IF n <= Len(files) THEN <<Line("notshown", UsizeSub(Len(files), n))>> ELSE <<>>)

\* the name lines and the "files not shown" line
NameLines(files, n) ==
    [i \in 1..Min(n, Len(files)) |-> Line("name", files[i])]
        \o (IF n < Len(files) THEN <<Line("notshown", UsizeSub(Len(files), n))>> ELSE <<>>)

LsPrintNames ==
    /\ cmd = "ls" /\ pc = "names"
    /\ stages' = Append(stages, "names")
    /\ \E height \in Heights :
          /\ n_print' = NPrint(args.n, height)
          /\ out' = out \o NameLines(paths, n_print')
    /\ pc' = "rows"
    /\ UNCHANGED <<cmd, args, cwd, fs, corrupt, paths, outputs, pending, reads,
                   outOfOrder, metas, total_size, answer, result>>

LsGetRowCounts ==
    /\ cmd = "ls" /\ pc = "rows"
    /\ stages' = Append(stages, "rows")
    /\ pending' = Indexes(paths)
    /\ reads' = <<>>
    /\ pc' = "rows_wait"
    /\ UNCHANGED <<cmd, args, cwd, fs, corrupt, paths, outputs, outOfOrder, metas,
                   total_size, n_print, answer, out, result>>

\* LsRowCountsJoin dropping the reads that failed instead of returning the error
LsRowCountsJoinSkipping ==
    /\ cmd = "ls" /\ pc = "rows_wait" /\ pending = {}
    /\ LET good == SelectSeq([i \in Indexes(paths) |-> reads[i]], LAMBDA r : r.ok)
       IN metas' = [i \in Indexes(good) |-> good[i].rows]
    /\ pc' = "total"
    /\ UNCHANGED <<cmd, args, cwd, fs, corrupt, stages, paths, outputs, pending, reads,
                   outOfOrder, total_size, n_print, answer, out, result>>

\* LsRowCountsJoin taking the reads that are back without awaiting the rest
LsRowCountsJoinEarly ==
    /\ cmd = "ls" /\ pc = "rows_wait"
    /\ LET back == SelectSeq([i \in Indexes(paths) |-> i], LAMBDA i : i \notin pending)
           bad == {i \in Indexes(back) : ~reads[back[i]].ok}
       IN IF bad # {}
          THEN Fail(Err("UnreadableMetadata", "cannot read footer", "",
                        paths[back[CHOOSE i \in bad : TRUE]], NoPath))
               /\ UNCHANGED metas
          ELSE /\ metas' = [i \in Indexes(back) |-> reads[back[i]].rows]
               /\ pc' = "total"
               /\ UNCHANGED result
    /\ UNCHANGED <<cmd, args, cwd, fs, corrupt, stages, paths, outputs, pending, reads,
                   outOfOrder, total_size, n_print, answer, out>>

LsRowCountsJoin ==
    /\ cmd = "ls" /\ pc = "rows_wait" /\ pending = {}
    /\ LET got == Collected(paths, reads)
       IN IF got.err.status = "err"
          THEN Fail(got.err) /\ UNCHANGED metas
          ELSE /\ metas' = [i \in Indexes(got.values) |-> got.values[i].rows]
               /\ pc' = "total"
               /\ UNCHANGED result
    /\ UNCHANGED <<cmd, args, cwd, fs, corrupt, stages, paths, outputs, pending, reads,
                   outOfOrder, total_size, n_print, answer, out>>

TotalLine(row_counts, size, files) ==
    Line("total", [rows |-> SumSeq(row_counts), bytes |-> size, files |-> Len(files)])

LsPrintTotal ==
    /\ cmd = "ls" /\ pc = "total"
    /\ stages' = Append(stages, "total")
    /\ out' = Append(out, TotalLine(metas, total_size, paths))
    /\ Fail(Ok)
    /\ UNCHANGED <<cmd, args, cwd, fs, corrupt, paths, outputs, pending, reads,
                   outOfOrder, metas, total_size, n_print, answer>>

(***************************************************************************)
(* Specification.                                                          *)
(***************************************************************************)
Next ==
    \/ DropDerive
    \/ DropGetSchemas
    \/ \E i \in pending : FooterRead(i)
    \/ DropSchemasJoin
    \/ DropCheckColumns
    \/ DropSummary
    \/ DropConfirm
    \/ DropEdit
    \/ LsGetPaths
    \/ LsClearPrefix
    \/ LsTotalSize
    \/ LsPrintNames
    \/ LsGetRowCounts
    \/ LsRowCountsJoin
    \/ LsPrintTotal

Spec == Init /\ [][Next]_vars

(***************************************************************************)
(* Properties.                                                             *)
(***************************************************************************)
Ran(stage) == \E i \in Indexes(stages) : stages[i] = stage

LinesOf(t) == {i \in Indexes(out) : out[i].t = t}

DropOrder == <<"derive", "schemas", "check", "summary", "confirm", "edit">>

\* the files of the input list whose own schema lacks a requested column
Offenders == {i \in Indexes(paths) :
                 \E k \in Indexes(args.columns) :
                     ~Contains(SchemaOf(paths[i]), args.columns[k])}

MissingIn(i) == {k \in Indexes(args.columns) : ~Contains(SchemaOf(paths[i]), args.columns[k])}

\* C1: once drop_command has run its column check, if some input file's
\* schema lacks a requested column, the command has failed with the error
\* that names the first such file in input order and, for it, the first
\* missing column in argument order; nothing was printed and neither the
\* summary, the prompt nor the edit step ran.
C1_MissingColumnNamesFile ==
    (cmd = "drop" /\ Ran("check") /\ Offenders # {}) =>
        LET i == CHOOSE b \in Offenders : \A c \in Offenders : b <= c
            k == CHOOSE l \in MissingIn(i) : \A m \in MissingIn(i) : l <= m
        IN /\ result = Err("MissingColumn", "File does not contain column",
                           args.columns[k], paths[i], NoPath)
           /\ pc = "done"
           /\ out = <<>>
           /\ stages = <<"derive", "schemas", "check">>

\* C1 witness: a two-file batch in which both files lack a column and the
\* error names one of them.
C1_Witness ==
    /\ cmd = "drop" /\ Ran("check")
    /\ Len(paths) = 2 /\ Offenders = {1, 2}
    /\ Len(args.columns) = 2 /\ MissingIn(1) = {1, 2}
    /\ result.kind = "MissingColumn"

\* a read of size or footer that fails for one of the paths the command holds
SizeReadFails == \E i \in Indexes(paths) : ~FileSize(paths[i]).ok
FooterReadFails == \E i \in Indexes(paths) : ~ReadFooter(paths[i]).ok

\* C2: a failed metadata read aborts the command: in ls_command, if the size
\* read or the row-count read fails for a path, the totals line is never
\* printed and the command ends in an error; in drop_command, if a schema
\* read fails, nothing is printed, the summary, prompt and edit step never
\* run and the command ends in an error.
C2_FailedReadAborts ==
    /\ (cmd = "ls" /\ ~(pc \in {"start", "prefix"}) /\ (SizeReadFails \/ FooterReadFails)) =>
           /\ LinesOf("total") = {}
           /\ pc = "done" => result.status = "err"
    /\ (cmd = "drop" /\ FooterReadFails) =>
           /\ out = <<>>
           /\ ~Ran("summary") /\ ~Ran("confirm") /\ ~Ran("edit")
           /\ pc = "done" => (result.status = "err" /\ result.kind = "UnreadableMetadata")

\* C2 witness: ls printed names, then one of two row-count reads failed.
C2_Witness ==
    /\ cmd = "ls" /\ pc = "done"
    /\ Len(paths) = 2 /\ ~SizeReadFails /\ FooterReadFails
    /\ LinesOf("name") # {}
    /\ result.kind = "UnreadableMetadata"

AffixOrRedirect ==
    args.output_dir.some \/ args.output_prefix.some \/ args.output_postfix.some

C4_SchemasAligned ==
    cmd = "drop" =>
        /\ (pc = "check" \/ Ran("check")) =>
               /\ Len(metas) = Len(paths)
               /\ \A i \in Indexes(paths) : metas[i] = SchemaOf(paths[i])
        /\ (pc = "summary" \/ Ran("summary")) => Offenders = {}

\* C4 witness: two schema reads came back out of order and the check ran.
C4_Witness ==
    /\ cmd = "drop" /\ Ran("check")
    /\ Len(paths) = 2 /\ outOfOrder
    /\ args.columns # <<>>

C6_WarnsUnderEveryPolicy ==
    (cmd = "drop" /\ Ran("confirm") /\ CountExistingFiles(outputs) > 0) =>
        \E w \in LinesOf("overwrite") :
            /\ out[w].v = CountExistingFiles(outputs)
            /\ \A q \in LinesOf("prompt") : w < q

\* the stage in which each error is raised
StageOf(kind) ==
    CASE kind \in {"NotFound", "EmptySet", "PathCollision"} -> "derive"
      [] kind = "UnreadableMetadata" -> "schemas"
      [] kind = "MissingColumn" -> "check"
      [] OTHER -> "summary"

\* C7: drop_command runs derive, schemas, check, summary, confirm, edit in
\* this order; an error ends the command in the stage that raised it; the
\* edit step is reached only with --confirm or an explicit yes; without
\* --confirm, a declined or failed prompt returns Ok without the edit step.
C7_StagesInOrder ==
    cmd = "drop" =>
        /\ Len(stages) <= Len(DropOrder)
        /\ stages = SubSeq(DropOrder, 1, Len(stages))
        /\ result.status # "none" => pc = "done"
        /\ result.status = "err" => stages[Len(stages)] = StageOf(result.kind)
        /\ (pc = "edit" \/ Ran("edit")) => (args.confirm \/ answer = "yes")
        /\ (~args.confirm /\ answer \in {"no", "fail"}) =>
               /\ pc = "done" /\ result = Ok
               /\ ~Ran("edit")

\* C7 witness: the prompt failed and the command returned Ok before the edit.
C7_Witness ==
    /\ cmd = "drop" /\ pc = "done"
    /\ ~args.confirm /\ answer = "fail"
    /\ result = Ok /\ stages = SubSeq(DropOrder, 1, 5)

\* what ls_command returns and totals when run to its end with the given
\* --absolute flag
LsOutcome(absolute) ==
    LET found == GetInputPaths(args.inputs, args.tree)
        cleared == ClearPrefix(found.paths, absolute)
        size == TotalSize(cleared.paths)
        counts == Collected(cleared.paths, [i \in Indexes(cleared.paths) |-> ReadFooter(cleared.paths[i])])
    IN IF found.err.status = "err" THEN [status |-> "err", total |-> <<>>]
       ELSE IF cleared.err.status = "err" THEN [status |-> "err", total |-> <<>>]
       ELSE IF size.err.status = "err" THEN [status |-> "err", total |-> <<>>]
       ELSE IF counts.err.status = "err" THEN [status |-> "err", total |-> <<>>]
       ELSE [status |-> "ok",
             total |-> <<TotalLine([i \in Indexes(cleared.paths) |-> counts.values[i].rows],
                                   size.total, cleared.paths)>>]

\* C8: for the same file set and working directory, ls_command without
\* --absolute ends as ls_command with --absolute does and reports the same
\* totals.
C8_SameAsAbsolute ==
    (cmd = "ls" /\ pc = "done" /\ ~args.absolute) =>
        /\ result.status = LsOutcome(TRUE).status
        /\ [i \in 1..Cardinality(LinesOf("total")) |-> out[Len(out)]] = LsOutcome(TRUE).total

\* C9: drop_command with an empty column list never reaches the prompt or
\* the edit step; once derivation and the schema reads have succeeded the
\* column check passes and the command returns the argument error
\* "must specify column(s) to drop", raised in the summary stage.
C9_EmptyColumnsArgError ==
    (cmd = "drop" /\ args.columns = <<>>) =>
        /\ ~(pc \in {"confirm", "edit"})
        /\ ~Ran("confirm") /\ ~Ran("edit")
        /\ LinesOf("prompt") = {}
        /\ Ran("check") => (pc = "summary" \/ Ran("summary"))
        /\ (Ran("check") /\ pc = "done") =>
               /\ result = Err("Arg", "must specify column(s) to drop", "", NoPath, NoPath)
               /\ stages = <<"derive", "schemas", "check", "summary">>

\* C9 witness: two inputs, no columns, the argument error.
C9_Witness ==
    /\ cmd = "drop" /\ args.columns = <<>>
    /\ Len(paths) = 2
    /\ result.kind = "Arg"

\* C10: once ls_command has printed its names, exactly min(n_print, L) names
\* are printed, the "files not shown" line is printed iff n_print < L, its
\* count is L - n_print and never an underflowed value, and names shown plus
\* the count reported not shown is L.
C10_NamesAndNotShown ==
    (cmd = "ls" /\ Ran("names")) =>
        LET L == Len(paths)
            shown == Cardinality(LinesOf("name"))
        IN /\ n_print >= 0
           /\ shown = Min(n_print, L)
           /\ \A i \in LinesOf("name") : out[i].v = paths[i]
           /\ (LinesOf("notshown") # {}) <=> (n_print < L)
           /\ Cardinality(LinesOf("notshown")) <= 1
           /\ \A i \in LinesOf("notshown") :
                  /\ out[i].v = L - n_print
                  /\ out[i].v > 0
                  /\ shown + out[i].v = L
           /\ LinesOf("notshown") = {} => shown = L

\* C10 witness: a print limit of 0 with two paths.
C10_Witness ==
    /\ cmd = "ls" /\ Ran("names")
    /\ n_print = 0 /\ Len(paths) = 2
    /\ LinesOf("notshown") # {}

====
